---- MODULE Spec2Model ----
(***************************************************************************)
(* Koda signalling node: the per-connection session of src/main.rs         *)
(* (handle_socket), its outbound/keepalive task (send_task) and the shared *)
(* peer registry (PeerMap), with the wire messages of src/protocol.rs.     *)
(*                                                                         *)
(* A connection's outbound channel is identified with the connection: the  *)
(* registry maps an identity to the connection whose tx it stores.         *)
(***************************************************************************)
EXTENDS Integers, Sequences, FiniteSets, TLC

(* ---------------------------- bounds ---------------------------------- *)
NumConns == 2          \* connections accepted by the node
NumIds == 2            \* identities (Uuid values) in play
NumData == 1           \* distinct opaque payloads
MaxFrames == 3         \* inbound frames read over all connections
MaxPings == 1          \* keepalive probes written over all connections

Conns == 1..NumConns
Ids == 1..NumIds
Data == 1..NumData

(* ---------------------------- values ---------------------------------- *)
\* Option::None of Option<Uuid>, and the empty slot of the registry.
None == 0
\* A SIGNAL payload that has no sender_id key at all.
Absent == -1

TokenKinds == {"valid", "expired", "missigned", "malformed"}
Tokens == [sub : Ids, kind : TokenKinds]

\* The frames a client can put on the socket (what receiver.next() yields).
\* Text frames carry a JSON document; "BADTEXT" is text that is no known
\* tagged variant; "BINARY" stands for every non-text frame.
IdentifyFrames == [type : {"IDENTIFY"}, token : Tokens]
SignalFrames == [type : {"SIGNAL"}, target_id : Ids,
                 sender_id : {Absent, None} \cup Ids, data : Data]
ServerOnlyFrames == [type : {"AUTHENTICATED"}, user_id : {1}]
                      \cup [type : {"PEER_OFFLINE"}, peer_id : {1}]
                      \cup [type : {"ERROR"}, message : {"X"}]
OtherFrames == [type : {"BADTEXT", "BINARY"}]
NoFrame == [type |-> "NONE"]

(* ---------------------------- protocol.rs ----------------------------- *)
\* The KodaSignal variants the server builds, in their wire form
\* {"type": ..., "payload": {...}} (flattened: one record per message).
Authenticated(uid) == [type |-> "AUTHENTICATED", user_id |-> uid]
PeerOffline(pid) == [type |-> "PEER_OFFLINE", peer_id |-> pid]
Error(m) == [type |-> "ERROR", message |-> m]
Signal(t, s, d) == [type |-> "SIGNAL", target_id |-> t, sender_id |-> s, data |-> d]
Ping == [type |-> "PING"]

\* serde's reading of the optional sender_id: a missing key and null both
\* give Option::None.
DecodeSender(s) == IF s \in {Absent, None} THEN None ELSE s

\* A loop that hands every frame to the JSON decoder, text or not.
IsTextForAnyFrame(f) == TRUE

\* serde_json::from_str::<KodaSignal>: Ok for the five tagged variants.
IsText(f) == f.type # "BINARY"
DecodesOk(f) == f.type \in {"IDENTIFY", "SIGNAL", "AUTHENTICATED", "PEER_OFFLINE", "ERROR"}

\* A verifier that skips the signature check.
DecodeTokenIgnoresSignature(token) ==
    IF token.kind \in {"valid", "missigned"} THEN token.sub ELSE None

\* A verifier that skips the expiry check.
DecodeTokenIgnoresExpiry(token) ==
    IF token.kind \in {"valid", "expired"} THEN token.sub ELSE None

\* jsonwebtoken::decode::<Claims> under Validation::default(): Ok(claims)
\* only for a well-formed, correctly signed token the verifier does not
\* hold expired; the result is claims.sub, or None for Err. A token's kind
\* is the verifier's verdict on it (where the library draws the line for
\* "expired", leeway included, is the library's business).
DecodeToken(token) == IF token.kind = "valid" THEN token.sub ELSE None

(* ---------------------------- state ----------------------------------- *)
VARIABLES
    peers,      \* state.peers: identity -> connection whose tx is stored, or None
    auth,       \* authenticated_user_id of each handle_socket
    pc,         \* where each handle_socket stands
    chan,       \* messages queued in each connection's unbounded channel
    sendTask,   \* each send_task: "running", "failed" (broke out), "aborted"
    wire,       \* what each send_task has written to its socket
    frames,     \* inbound frames read so far
    last        \* the frame most recently read, and the connection that read it

vars == <<peers, auth, pc, chan, sendTask, wire, frames, last>>

Init ==
    /\ peers = [i \in Ids |-> None]
    /\ auth = [c \in Conns |-> None]
    /\ pc = [c \in Conns |-> "recv"]
    /\ chan = [c \in Conns |-> <<>>]
    /\ sendTask = [c \in Conns |-> "running"]
    /\ wire = [c \in Conns |-> <<>>]
    /\ frames = 0
    /\ last = [conn |-> None, frame |-> NoFrame]

(* ---------------------------- channel --------------------------------- *)
\* The receiver half lives inside send_task: it is dropped when the task
\* breaks out of its loop or is aborted.
RxOpen(c) == sendTask[c] = "running"

\* UnboundedSender::send(m) on connection c's channel: queued while the
\* receiver lives, Err (ignored by `let _ =`) and dropped otherwise.
TxSend(ch, c, m) == IF RxOpen(c) THEN [ch EXCEPT ![c] = Append(@, m)] ELSE ch

(* ---------------------------- inbound loop ---------------------------- *)
\* A loop that takes the next frame while the confirmation of the last
\* Identify is still to be sent (the confirmation left to a spawned task).
ReadBeforeConfirming(c, f) ==
    /\ pc[c] \in {"recv", "confirm"}
    /\ frames < MaxFrames
    /\ frames' = frames + 1
    /\ last' = [conn |-> c, frame |-> f]

Read(c, f) ==
    /\ pc[c] = "recv"
    /\ frames < MaxFrames
    /\ frames' = frames + 1
    /\ last' = [conn |-> c, frame |-> f]

\* A routing step that keeps the sender_id the client supplied when there is one.
RoutedMsgTrustsClient(f, sender_id) ==
    Signal(f.target_id,
           IF DecodeSender(f.sender_id) # None THEN DecodeSender(f.sender_id) ELSE sender_id,
           f.data)

\* The message the routing step builds: sender_id is the session's identity.
RoutedMsg(f, sender_id) == Signal(f.target_id, sender_id, f.data)

\* KodaSignal::Identify, lines 87-95: verify, remember the identity, register.
\* The arm does not look at the identity the session already has. Sessions
\* run on a multi-threaded runtime, so other sessions may step between the
\* insert and the confirmation that follows it.
HandleIdentify(c, f) ==
    /\ Read(c, f)
    /\ f \in IdentifyFrames
    /\ LET uid == DecodeToken(f.token) IN
         IF uid # None
         THEN /\ auth' = [auth EXCEPT ![c] = uid]
              /\ peers' = [peers EXCEPT ![uid] = c]
              /\ pc' = [pc EXCEPT ![c] = "confirm"]
         ELSE UNCHANGED <<auth, peers, pc>>
    /\ UNCHANGED <<chan, sendTask, wire>>

\* Lines 97-99: the confirmation, sent on the session's own tx.
SendAuthenticated(c) ==
    /\ pc[c] = "confirm"
    /\ chan' = TxSend(chan, c, Authenticated(auth[c]))
    /\ pc' = [pc EXCEPT ![c] = "recv"]
    /\ UNCHANGED <<peers, auth, sendTask, wire, frames, last>>

\* A routing step that unwraps the result of the push: a send to a channel
\* whose reader is gone panics the sender's handler, which ends without
\* cleanup.
HandleSignalUnwrapsSend(c, f) ==
    /\ Read(c, f)
    /\ f \in SignalFrames
    /\ IF auth[c] # None
       THEN IF peers[f.target_id] # None
            THEN /\ chan' = TxSend(chan, peers[f.target_id], RoutedMsg(f, auth[c]))
                 /\ pc' = IF RxOpen(peers[f.target_id]) THEN pc
                                                        ELSE [pc EXCEPT ![c] = "done"]
            ELSE chan' = TxSend(chan, c, PeerOffline(f.target_id)) /\ pc' = pc
       ELSE chan' = TxSend(chan, c, Error("IDENTIFY_REQUIRED")) /\ pc' = pc
    /\ UNCHANGED <<peers, auth, sendTask, wire>>

\* A routing step that also pushes the Signal to every session identified as
\* the target, as a registry keeping several channels per identity would.
HandleSignalToAllHolders(c, f) ==
    /\ Read(c, f)
    /\ f \in SignalFrames
    /\ IF auth[c] # None
       THEN IF peers[f.target_id] # None
            THEN chan' = [d \in Conns |->
                            IF RxOpen(d) /\ (d = peers[f.target_id] \/ auth[d] = f.target_id)
                            THEN Append(chan[d], RoutedMsg(f, auth[c]))
                            ELSE chan[d]]
            ELSE chan' = TxSend(chan, c, PeerOffline(f.target_id))
       ELSE chan' = TxSend(chan, c, Error("IDENTIFY_REQUIRED"))
    /\ UNCHANGED <<peers, auth, pc, sendTask, wire>>

\* KodaSignal::Signal, lines 104-131. The registry guard returned by get()
\* is held across the send, so lookup and push are one step.
HandleSignal(c, f) ==
    /\ Read(c, f)
    /\ f \in SignalFrames
    /\ IF auth[c] # None
       THEN IF peers[f.target_id] # None
            THEN chan' = TxSend(chan, peers[f.target_id], RoutedMsg(f, auth[c]))
            ELSE chan' = TxSend(chan, c, PeerOffline(f.target_id))
       ELSE chan' = TxSend(chan, c, Error("IDENTIFY_REQUIRED"))
    /\ UNCHANGED <<peers, auth, pc, sendTask, wire>>

\* Line 132 (`_ => {}`) and the missing else of line 83: server-to-client
\* variants and non-text frames do nothing.
HandleIgnored(c, f) ==
    /\ Read(c, f)
    /\ \/ f \in ServerOnlyFrames
       \/ ~IsText(f)
    /\ UNCHANGED <<peers, auth, pc, chan, sendTask, wire>>

\* Lines 134-139: text that does not decode.
HandleMalformed(c, f) ==
    /\ Read(c, f)
    /\ IsText(f) /\ ~DecodesOk(f)
    /\ chan' = TxSend(chan, c, Error("MALFORMATTED_JSON"))
    /\ UNCHANGED <<peers, auth, pc, sendTask, wire>>

\* Line 82: receiver.next() yields None or Some(Err): the loop ends.
ReadEnd(c) ==
    /\ pc[c] = "recv"
    /\ pc' = [pc EXCEPT ![c] = "cleanup"]
    /\ UNCHANGED <<peers, auth, chan, sendTask, wire, frames, last>>

(* ---------------------------- teardown -------------------------------- *)
\* Lines 144-147: state.peers.remove(&uid) for the session's identity.
RemoveEntry(p, uid, c) == [p EXCEPT ![uid] = None]

Unregister(c) ==
    /\ pc[c] = "cleanup"
    /\ peers' = IF auth[c] # None THEN RemoveEntry(peers, auth[c], c) ELSE peers
    /\ pc' = [pc EXCEPT ![c] = "abort"]
    /\ UNCHANGED <<auth, chan, sendTask, wire, frames, last>>

\* Line 148: send_task.abort(); the task's rx and socket half are dropped,
\* and with rx the messages still queued.
Abort(c) ==
    /\ pc[c] = "abort"
    /\ sendTask' = [sendTask EXCEPT ![c] = IF @ = "running" THEN "aborted" ELSE @]
    /\ chan' = [chan EXCEPT ![c] = <<>>]
    /\ pc' = [pc EXCEPT ![c] = "done"]
    /\ UNCHANGED <<peers, auth, wire, frames, last>>

(* ---------------------------- send_task ------------------------------- *)
RECURSIVE CountPings(_)
CountPings(w) == IF w = <<>> THEN 0
                 ELSE (IF Head(w) = Ping THEN 1 ELSE 0) + CountPings(Tail(w))

RECURSIVE SumPings(_)
SumPings(cs) == IF cs = {} THEN 0
                ELSE LET c == CHOOSE x \in cs : TRUE
                     IN CountPings(wire[c]) + SumPings(cs \ {c})

\* Keepalive probes on all sockets so far (the model's cap on timer ticks).
PingsWritten == SumPings(Conns)

\* A send_task that takes the newest queued message instead of the oldest.
WriteMsgNewestFirst(c) ==
    /\ sendTask[c] = "running"
    /\ chan[c] # <<>>
    /\ wire' = [wire EXCEPT ![c] = Append(@, chan[c][Len(chan[c])])]
    /\ chan' = [chan EXCEPT ![c] = SubSeq(@, 1, Len(@) - 1)]
    /\ UNCHANGED <<peers, auth, pc, sendTask, frames, last>>

\* A select loop biased towards the timer: the queue branch is taken only
\* when no keepalive tick is waiting to be served.
WriteMsgAfterTimer(c) ==
    /\ sendTask[c] = "running"
    /\ chan[c] # <<>>
    /\ PingsWritten >= MaxPings
    /\ wire' = [wire EXCEPT ![c] = Append(@, Head(chan[c]))]
    /\ chan' = [chan EXCEPT ![c] = Tail(@)]
    /\ UNCHANGED <<peers, auth, pc, sendTask, frames, last>>

\* Lines 71-73, the write succeeding.
WriteMsg(c) ==
    /\ sendTask[c] = "running"
    /\ chan[c] # <<>>
    /\ wire' = [wire EXCEPT ![c] = Append(@, Head(chan[c]))]
    /\ chan' = [chan EXCEPT ![c] = Tail(@)]
    /\ UNCHANGED <<peers, auth, pc, sendTask, frames, last>>

\* Lines 71-73, sender.send(msg) failing: break, and nothing else.
WriteMsgFails(c) ==
    /\ sendTask[c] = "running"
    /\ chan[c] # <<>>
    /\ sendTask' = [sendTask EXCEPT ![c] = "failed"]
    /\ chan' = [chan EXCEPT ![c] = <<>>]
    /\ UNCHANGED <<peers, auth, pc, wire, frames, last>>

\* Lines 74-76, the ping written.
WritePing(c) ==
    /\ sendTask[c] = "running"
    /\ PingsWritten < MaxPings
    /\ wire' = [wire EXCEPT ![c] = Append(@, Ping)]
    /\ UNCHANGED <<peers, auth, pc, chan, sendTask, frames, last>>

\* Lines 74-76, the ping failing: break.
WritePingFails(c) ==
    /\ sendTask[c] = "running"
    /\ sendTask' = [sendTask EXCEPT ![c] = "failed"]
    /\ chan' = [chan EXCEPT ![c] = <<>>]
    /\ UNCHANGED <<peers, auth, pc, wire, frames, last>>

(* ---------------------------- specification --------------------------- *)
Next ==
    \/ \E c \in Conns, f \in IdentifyFrames : HandleIdentify(c, f)
    \/ \E c \in Conns : SendAuthenticated(c)
    \/ \E c \in Conns, f \in SignalFrames : HandleSignal(c, f)
    \/ \E c \in Conns, f \in ServerOnlyFrames \cup OtherFrames : HandleIgnored(c, f)
    \/ \E c \in Conns, f \in OtherFrames : HandleMalformed(c, f)
    \/ \E c \in Conns : ReadEnd(c)
    \/ \E c \in Conns : Unregister(c)
    \/ \E c \in Conns : Abort(c)
    \/ \E c \in Conns : WriteMsg(c)
    \/ \E c \in Conns : WriteMsgFails(c)
    \/ \E c \in Conns : WritePing(c)
    \/ \E c \in Conns : WritePingFails(c)

Spec == Init /\ [][Next]_vars

\* What the runtime guarantees: a handler that is past an await point runs
\* on (confirmation, teardown), and a send_task with a queued message
\* attempts the write. Nothing obliges a client to send a frame or to close,
\* nor a write to fail.
Fairness ==
    \A c \in Conns :
        /\ WF_vars(SendAuthenticated(c))
        /\ WF_vars(Unregister(c))
        /\ WF_vars(Abort(c))
        /\ WF_vars(WriteMsg(c) \/ WriteMsgFails(c))

FairSpec == Spec /\ Fairness

(* ---------------------------- claims ---------------------------------- *)
\* The last element of a non-empty queue.
Last(q) == q[Len(q)]

\* C1: a closing connection's teardown never removes or changes a registry
\* entry that holds another connection's channel.
C1_TeardownKeepsNewerEntry ==
    [][\A c \in Conns :
          Unregister(c) =>
              \A i \in Ids : peers[i] # c => peers'[i] = peers[i]]_vars

\* C2: whatever sender_id the client wrote, every Signal the routing step
\* enqueues carries the routing session's identity as sender_id, and the
\* target_id and data of the inbound frame.
C2_RoutedSenderIsAuthenticated ==
    [][\A c \in Conns, f \in SignalFrames :
          HandleSignal(c, f) =>
              \A d \in Conns :
                  \/ chan'[d] = chan[d]
                  \/ /\ chan'[d] = Append(chan[d], Last(chan'[d]))
                     /\ Last(chan'[d]).type = "SIGNAL" =>
                            /\ auth[c] # None
                            /\ Last(chan'[d]) = Signal(f.target_id, auth[c], f.data)]_vars

\* A session identified as one user has just routed a frame in which the
\* client named another user as sender, and the target's queue ends with the
\* rewritten Signal.
C2_Witness ==
    /\ last.frame.type = "SIGNAL"
    /\ auth[last.conn] # None
    /\ last.frame.sender_id \in Ids \ {auth[last.conn]}
    /\ peers[last.frame.target_id] # None
    /\ chan[peers[last.frame.target_id]] # <<>>
    /\ Last(chan[peers[last.frame.target_id]])
          = Signal(last.frame.target_id, auth[last.conn], last.frame.data)

\* C3: a valid Identify for I registers I -> the sender's channel, and its
\* confirmation step enqueues exactly one Authenticated{I} on the sender's
\* own channel and nothing on any other.
C3_ValidIdentifyConfirmsAndRegisters ==
    [][\A c \in Conns :
          /\ \A f \in IdentifyFrames :
                 (HandleIdentify(c, f) /\ f.token.kind = "valid") =>
                     /\ peers'[f.token.sub] = c
                     /\ auth'[c] = f.token.sub
                     /\ pc'[c] = "confirm"
          /\ SendAuthenticated(c) =>
                 chan' = [chan EXCEPT ![c] = Append(@, Authenticated(auth[c]))]]_vars

\* C4: an Identify whose token is expired, mis-signed or malformed changes
\* neither the registry nor any session's identity, enqueues nothing, and
\* does not lead to the confirmation step.
C4_InvalidIdentifyChangesNothing ==
    [][\A c \in Conns, f \in IdentifyFrames :
          (HandleIdentify(c, f) /\ f.token.kind # "valid") =>
              /\ peers' = peers
              /\ auth' = auth
              /\ chan' = chan
              /\ pc' = pc]_vars

\* An unidentified session has just read an expired token naming an identity
\* that another session holds in the registry.
C4_Witness ==
    /\ last.frame.type = "IDENTIFY"
    /\ last.frame.token.kind = "expired"
    /\ auth[last.conn] = None
    /\ pc[last.conn] = "recv"
    /\ peers[last.frame.token.sub] \notin {None, last.conn}

\* C5: a Signal read by a session that has not identified enqueues
\* Error{IDENTIFY_REQUIRED} on that session's own channel and nothing on any
\* other, whatever the target.
C5_UnidentifiedSignalIsRejected ==
    [][\A c \in Conns, f \in SignalFrames :
          (HandleSignal(c, f) /\ auth[c] = None) =>
              chan' = [chan EXCEPT ![c] = Append(@, Error("IDENTIFY_REQUIRED"))]]_vars

\* C6: a Signal from an identified session whose target has no registry
\* entry enqueues PeerOffline{target} on the sender's own channel and nothing
\* on any other.
C6_UnregisteredTargetYieldsPeerOffline ==
    [][\A c \in Conns, f \in SignalFrames :
          (HandleSignal(c, f) /\ auth[c] # None /\ peers[f.target_id] = None) =>
              chan' = [chan EXCEPT ![c] = Append(@, PeerOffline(f.target_id))]]_vars

\* C7: once a session's teardown has finished, no registry entry maps to
\* its channel.
C7_NoEntryAfterTeardown ==
    \A c \in Conns : pc[c] = "done" => \A i \in Ids : peers[i] # c

\* C8: an Identify by one session leaves every other session's position,
\* identity, outbound task and queue as they were, and a Signal routed to an
\* identity that a superseded session also holds is enqueued on the channel
\* the registry holds for it (the latest to identify) and on no other.
C8_SupersessionRoutesToNewest ==
    [][/\ \A b \in Conns, f \in IdentifyFrames :
             HandleIdentify(b, f) =>
                 \A a \in Conns \ {b} :
                     /\ pc'[a] = pc[a]
                     /\ auth'[a] = auth[a]
                     /\ sendTask'[a] = sendTask[a]
                     /\ chan'[a] = chan[a]
       /\ \A s \in Conns, f \in SignalFrames :
             (/\ HandleSignal(s, f)
              /\ auth[s] # None
              /\ peers[f.target_id] # None
              /\ \E a \in Conns \ {peers[f.target_id]} : auth[a] = f.target_id) =>
                 chan' = [chan EXCEPT ![peers[f.target_id]] =
                                          Append(@, RoutedMsg(f, auth[s]))]]_vars

\* C9: once a session's identity is set, no step changes it.
C9_IdentitySetOnce ==
    [][\A c \in Conns : auth[c] # None => auth'[c] = auth[c]]_vars

\* C10: a failed write in the outbound duty leads to the session's teardown
\* (inbound loop stopped, registry entry removed, task aborted).
C10_WriteFailureLeadsToTeardown ==
    \A c \in Conns : (sendTask[c] = "failed") ~> (pc[c] = "done")

\* C11: each connection's channel is a queue (messages enter at the tail,
\* whoever the producer, and leave at the head), and what is written to the
\* socket is the head of the queue at that moment or a keepalive probe: the
\* protocol messages on the socket are in the order they were enqueued.
C11_WrittenInEnqueueOrder ==
    [][\A c \in Conns :
          /\ \/ chan'[c] = chan[c]
             \/ /\ Len(chan'[c]) = Len(chan[c]) + 1
                /\ SubSeq(chan'[c], 1, Len(chan[c])) = chan[c]
                /\ wire'[c] = wire[c]
             \/ /\ chan[c] # <<>>
                /\ chan'[c] = Tail(chan[c])
                /\ wire'[c] = Append(wire[c], Head(chan[c]))
             \/ /\ chan'[c] = <<>>
                /\ sendTask'[c] # "running"
                /\ wire'[c] = wire[c]
          /\ wire'[c] # wire[c] =>
                \/ wire'[c] = Append(wire[c], Ping) /\ chan'[c] = chan[c]
                \/ /\ chan[c] # <<>>
                   /\ wire'[c] = Append(wire[c], Head(chan[c]))
                   /\ chan'[c] = Tail(chan[c])]_vars

\* A socket on which the session's own confirmation, a keepalive probe and a
\* Signal routed by another session have been written, in that order.
C11_Witness ==
    \E c \in Conns :
        /\ Len(wire[c]) = 3
        /\ wire[c][1] = Authenticated(auth[c])
        /\ wire[c][2] = Ping
        /\ wire[c][3].type = "SIGNAL"
        /\ wire[c][3].sender_id # auth[c]

\* C12: a text frame that is no known tagged variant enqueues
\* Error{MALFORMATTED_JSON} on the reading session's own channel and on no
\* other, changes neither the registry nor any identity, and leaves the
\* session reading.
C12_MalformedTextIsReported ==
    [][\A c \in Conns, f \in OtherFrames :
          (Read(c, f) /\ IsText(f) /\ ~DecodesOk(f)) =>
              /\ chan' = [chan EXCEPT ![c] = Append(@, Error("MALFORMATTED_JSON"))]
              /\ peers' = peers
              /\ auth' = auth
              /\ pc' = pc]_vars

\* The channels a step has changed.
Touched == {d \in Conns : chan'[d] # chan[d]}

\* C13: after every step the registry maps each identity to at most one
\* channel (one connection or none), and a step that reads a Signal frame
\* enqueues on at most one channel, one message.
C13_OneEntryOneDelivery ==
    [][/\ peers' \in [Ids -> Conns \cup {None}]
       /\ \A c \in Conns, f \in SignalFrames :
             HandleSignal(c, f) =>
                 /\ Cardinality(Touched) <= 1
                 /\ \A d \in Touched :
                        /\ Len(chan'[d]) = Len(chan[d]) + 1
                        /\ SubSeq(chan'[d], 1, Len(chan[d])) = chan[d]]_vars

\* Two live sessions hold the same identity, the registry names one of them,
\* and the Signal just routed to that identity sits on that one's queue only.
C13_Witness ==
    /\ last.frame.type = "SIGNAL"
    /\ \E a, b \in Conns :
          /\ a # b
          /\ auth[a] = last.frame.target_id
          /\ auth[b] = last.frame.target_id
          /\ peers[last.frame.target_id] = b
          /\ RxOpen(a) /\ RxOpen(b)
          /\ chan[a] = <<Authenticated(auth[a])>>
          /\ wire[a] = <<>>
          /\ chan[b] = <<Authenticated(auth[b]),
                         Signal(last.frame.target_id, auth[last.conn], last.frame.data)>>

\* C14: a Signal routed to a registered target whose channel reader is gone
\* is dropped without a fault: no session's position, identity or outbound
\* task changes, and the registry and every queue and socket stay as they were.
C14_FailedSendIsSwallowed ==
    [][\A c \in Conns, f \in SignalFrames :
          (/\ HandleSignal(c, f)
           /\ auth[c] # None
           /\ peers[f.target_id] # None
           /\ ~RxOpen(peers[f.target_id])) =>
              /\ pc' = pc
              /\ auth' = auth
              /\ peers' = peers
              /\ sendTask' = sendTask
              /\ chan' = chan
              /\ wire' = wire]_vars

\* An identified session, still reading, has read a Signal for an identity
\* that the registry maps to another session whose outbound task has ended
\* and whose socket never carried a Signal.
C14_Witness ==
    /\ last.frame.type = "SIGNAL"
    /\ auth[last.conn] # None
    /\ pc[last.conn] = "recv"
    /\ RxOpen(last.conn)
    /\ peers[last.frame.target_id] \notin {None, last.conn}
    /\ ~RxOpen(peers[last.frame.target_id])
    /\ pc[peers[last.frame.target_id]] = "recv"
    /\ \A k \in 1..Len(wire[peers[last.frame.target_id]]) :
           wire[peers[last.frame.target_id]][k].type # "SIGNAL"

\* Frames the router has no arm for: non-text frames and the three
\* server-to-client variants.
IgnoredFrames == ServerOnlyFrames \cup {f \in OtherFrames : f.type = "BINARY"}

\* C15: reading a non-text frame, or a text frame that decodes to
\* Authenticated, PeerOffline or Error, changes no identity, no registry
\* entry, no session's position and no queue.
C15_OtherFramesAreIgnored ==
    [][\A c \in Conns, f \in IgnoredFrames :
          Read(c, f) =>
              /\ auth' = auth
              /\ peers' = peers
              /\ pc' = pc
              /\ chan' = chan
              /\ sendTask' = sendTask
              /\ wire' = wire]_vars

\* A session with a live outbound task has read an AUTHENTICATED frame sent
\* by its client (or a binary frame) and is still unidentified, unregistered
\* and has never been sent anything.
C15_Witness ==
    /\ last.frame \in IgnoredFrames
    /\ frames = 2
    /\ auth[last.conn] = None
    /\ RxOpen(last.conn)
    /\ pc[last.conn] = "recv"
    /\ chan[last.conn] = <<>>
    /\ wire[last.conn] = <<>>
    /\ \A i \in Ids : peers[i] # last.conn

\* C16 as claimed: between a session's registry insert and its enqueue of
\* Authenticated, no step places a Signal on that session's channel.
C16_NoSignalBeforeAuthenticated ==
    [][\A c \in Conns :
          (pc[c] = "confirm" /\ Len(chan'[c]) > Len(chan[c])) =>
              Last(chan'[c]).type # "SIGNAL"]_vars

\* C16 as amended: between a session's registry insert and its enqueue of
\* Authenticated the session itself enqueues nothing else on its channel;
\* the only other message that can land there is a Signal routed by another
\* session to an identity the registry maps to that channel (the send_task
\* may meanwhile take messages off the queue, or drop it).
C16_OnlyRoutedSignalsBeforeAuthenticated ==
    [][\A c \in Conns :
          (pc[c] = "confirm" /\ chan'[c] # chan[c]) =>
              \/ /\ SendAuthenticated(c)
                 /\ chan'[c] = Append(chan[c], Authenticated(auth[c]))
              \/ /\ Len(chan'[c]) = Len(chan[c]) + 1
                 /\ chan'[c] = Append(chan[c], Last(chan'[c]))
                 /\ Last(chan'[c]).type = "SIGNAL"
                 /\ peers[Last(chan'[c]).target_id] = c
                 /\ last'.conn # c
                 /\ pc'[c] = "confirm"
              \/ /\ Len(chan'[c]) < Len(chan[c])
                 /\ pc'[c] = "confirm"]_vars

\* The first two messages ever queued for a session are a Signal addressed
\* to its identity, from another session, and then its own Authenticated.
C16_Witness ==
    \E c \in Conns :
        /\ wire[c] = <<>>
        /\ Len(chan[c]) = 2
        /\ chan[c][1].type = "SIGNAL"
        /\ chan[c][1].target_id = auth[c]
        /\ chan[c][2] = Authenticated(auth[c])
        /\ last.conn # c

\* C17: a registry entry T -> channel is only ever written by that channel's
\* own session reading an Identify with a valid token for T, and a Signal
\* is only ever enqueued on the channel the registry holds for its target.
\* Hence a Signal addressed to T only reaches a connection that presented a
\* valid token for T.
C17_NoMisdelivery ==
    [][/\ \A i \in Ids :
             (peers'[i] # peers[i] /\ peers'[i] # None) =>
                 /\ frames' = frames + 1
                 /\ last'.conn = peers'[i]
                 /\ last'.frame.type = "IDENTIFY"
                 /\ last'.frame.token = [sub |-> i, kind |-> "valid"]
       /\ \A d \in Conns :
             (Len(chan'[d]) = Len(chan[d]) + 1 /\ Last(chan'[d]).type = "SIGNAL") =>
                 peers[Last(chan'[d]).target_id] = d]_vars

\* A session that identified as one user and then as another has just been
\* routed a Signal addressed to the first identity, which the registry still
\* maps to it; its queue holds the confirmation of that identity.
C17_Witness ==
    /\ last.frame.type = "SIGNAL"
    /\ \E d \in Conns :
          /\ peers[last.frame.target_id] = d
          /\ auth[d] # last.frame.target_id
          /\ wire[d] = <<>>
          /\ Len(chan[d]) = 3
          /\ chan[d][1] = Authenticated(last.frame.target_id)
          /\ chan[d][3] = Signal(last.frame.target_id, auth[last.conn], last.frame.data)

\* Fair scheduling of the outbound duty on a connection whose writes succeed:
\* select! without `biased` serves a ready queue branch (the timer is ready
\* only once per period), so a send_task with a queued message writes it.
WritesSucceed == \A c \in Conns : WF_vars(WriteMsg(c))

\* The state after connection 1 sent one binary frame, which the inbound
\* loop ignores (line 83 has no else): nothing but the frame count moved.
InitAfterBinaryFrame ==
    /\ peers = [i \in Ids |-> None]
    /\ auth = [c \in Conns |-> None]
    /\ pc = [c \in Conns |-> "recv"]
    /\ chan = [c \in Conns |-> <<>>]
    /\ sendTask = [c \in Conns |-> "running"]
    /\ wire = [c \in Conns |-> <<>>]
    /\ frames = 1
    /\ last = [conn |-> 1, frame |-> [type |-> "BINARY"]]

WriteFairSpec == InitAfterBinaryFrame /\ [][Next]_vars /\ WritesSucceed

\* Protocol messages written to a socket (keepalive probes left out).
Written(c) == Len(wire[c]) - CountPings(wire[c])

====
